---------------------------- MODULE Spec2Model ----------------------------
(***************************************************************************)
(* A model of env/HAN.py: one HANLayer (its subgraph cache sg_dict, its    *)
(* record of dense metapaths large_graph, its per-metapath attention       *)
(* sublayers gat_layers with their snapshots rest_layers), the external    *)
(* optimizer's param groups, and the caller's meta_pathset list that       *)
(* forward mutates in place.                                               *)
(*                                                                         *)
(* Heterographs are given in block form: the nodes of a type fall into     *)
(* groups of GroupSize nodes and an edge type connects either every pair   *)
(* of two groups or none.  A composed adjacency is then constant on each   *)
(* block, so one stored entry of the model stands for rows*cols stored     *)
(* entries of the scipy matrix, all with the same path count.  This keeps  *)
(* matrices of 10^8 entries explicit, which top-k truncation needs:        *)
(* K = 5000 * (rows + cols) is only exceeded by such matrices.             *)
(*                                                                         *)
(* Edge-type names are strings, so str() leaves them as they are and a     *)
(* metapath's key is the concatenation of its names.  Tensors are kept as  *)
(* their shapes; a sublayer's parameters as an object identity and a       *)
(* value, 0 being the value GATConv's initialiser gave them.               *)
(*                                                                         *)
(* The inputs are those forward gets through its two loops with: metapaths *)
(* are nonempty and their edge types compose, edge-type names are names    *)
(* nn.ModuleDict accepts as keys, b_ids is nonempty.  Every operation      *)
(* leaves what it read and returned in the observed variables until the    *)
(* caller moves on (Return).                                               *)
(***************************************************************************)
EXTENDS Integers, Sequences, FiniteSets, TLC

\* ------------------------------------------------------------------ bounds
GroupSize == 7000
MaxPaths == 2
MaxBatch == 2
MaxParam == 1

\* --------------------------------------------------------- program constants
TopKPerNode == 5000
DefaultThreshold == <<3, 4>>

\* ------------------------------------------------------------------ inputs
NodeGroups == [U |-> <<GroupSize, GroupSize>>, V |-> <<GroupSize>>]

Graphs ==
  << [a  |-> [src |-> "U", dst |-> "U", blk |-> << <<1, 1>>, <<1, 0>> >>],
      b  |-> [src |-> "U", dst |-> "U", blk |-> << <<1, 0>>, <<1, 1>> >>],
      ab |-> [src |-> "U", dst |-> "U", blk |-> << <<1, 1>>, <<1, 1>> >>],
      c  |-> [src |-> "U", dst |-> "V", blk |-> << <<1>>, <<1>> >>]],
     [a  |-> [src |-> "U", dst |-> "U", blk |-> << <<1, 0>>, <<0, 0>> >>],
      b  |-> [src |-> "U", dst |-> "U", blk |-> << <<1, 1>>, <<1, 1>> >>],
      ab |-> [src |-> "U", dst |-> "U", blk |-> << <<1, 0>>, <<0, 1>> >>],
      c  |-> [src |-> "V", dst |-> "U", blk |-> << <<1, 1>> >>]] >>

GraphIds == DOMAIN Graphs

MetaPaths == { <<"ab">>, <<"a", "b">>, <<"c">> }

Thresholds == { DefaultThreshold, <<1, 2>> }

OutSizes == { 1, 2 }

HeadCounts == { 1, 2 }

RECURSIVE SeqsUpTo(_, _)
SeqsUpTo(S, n) ==
  IF n = 0 THEN { <<>> }
  ELSE LET shorter == SeqsUpTo(S, n - 1)
       IN shorter \cup { Append(s, x) : s \in shorter, x \in S }

MetaPathSets == SeqsUpTo(MetaPaths, MaxPaths)

\* b_ids: forward reads only its length and which of its ids repeat, so the
\* batches are taken up to a renaming of the node ids: the first id is 0 and
\* every later id is at most one more than the largest before it.
BatchIds ==
  { b \in SeqsUpTo(0 .. MaxBatch - 1, MaxBatch) \ { <<>> } :
      /\ b[1] = 0
      /\ \A i \in 2 .. Len(b) : \E j \in 1 .. i - 1 : b[i] <= b[j] + 1 }

\* ----------------------------------------------------------------- helpers
RECURSIVE SumSeq(_)
SumSeq(s) == IF s = <<>> THEN 0 ELSE Head(s) + SumSeq(Tail(s))

Min(x, y) == IF x < y THEN x ELSE y

EmptyDict == [k \in {} |-> 0]

DictSet(d, key, value) ==
  [k \in DOMAIN d \cup {key} |-> IF k = key THEN value ELSE d[k]]

RECURSIVE Join(_)
Join(mp) == IF mp = <<>> THEN "" ELSE Head(mp) \o Join(Tail(mp))

Contains(list, x) == \E i \in DOMAIN list : list[i] = x

RECURSIVE ListRemove(_, _)
ListRemove(list, x) ==
  IF list = <<>> THEN <<>>
  ELSE IF Head(list) = x THEN Tail(list)
  ELSE <<Head(list)>> \o ListRemove(Tail(list), x)


\* ------------------------------------------------- metapath_reachable_graph
\* g.adj(etype=etype, scipy_fmt='csr', transpose=False): rows are the source
\* type's nodes, columns the destination type's; val[i][j] is the entry of
\* every (row, column) pair of row group i and column group j.
GraphAdj(g, etype) ==
  LET e == Graphs[g][etype]
  IN [rows |-> NodeGroups[e.src], cols |-> NodeGroups[e.dst], val |-> e.blk]

RECURSIVE DotFrom(_, _, _, _, _)
DotFrom(A, B, i, j, k) ==
  IF k > Len(A.cols) THEN 0
  ELSE A.val[i][k] * A.cols[k] * B.val[k][j] + DotFrom(A, B, i, j, k + 1)

\* adj * M for scipy matrices is the matrix product; adj starts as the
\* scalar 1, whose product with M is M.
Times(adj, M) ==
  IF "scalar" \in DOMAIN adj THEN M
  ELSE [rows |-> adj.rows, cols |-> M.cols,
        val |-> [i \in DOMAIN adj.rows |->
                  [j \in DOMAIN M.cols |-> DotFrom(adj, M, i, j, 1)]]]

RECURSIVE Compose(_, _, _)
Compose(adj, g, metapath) ==
  IF metapath = <<>> THEN adj
  ELSE Compose(Times(adj, GraphAdj(g, Head(metapath))), g, Tail(metapath))

ComposedAdj(g, metapath) == Compose([scalar |-> 1], g, metapath)

\* adj.shape
Shape(adj) == <<SumSeq(adj.rows), SumSeq(adj.cols)>>

\* The stored entries in storage order (row-major), one per nonzero block.
Stored(adj) ==
  LET C == Len(adj.cols)
      all == [n \in 1 .. Len(adj.rows) * C |-> <<((n - 1) \div C) + 1, ((n - 1) % C) + 1>>]
  IN SelectSeq(all, LAMBDA p : adj.val[p[1]][p[2]] # 0)

\* How many stored entries of the scipy matrix each stored block stands for.
Mult(adj) ==
  LET s == Stored(adj) IN [n \in DOMAIN s |-> adj.rows[s[n][1]] * adj.cols[s[n][2]]]

\* adj.nnz
Nnz(adj) == SumSeq(Mult(adj))

\* adj.nonzero(): the row indices and the column indices, in storage order.
Nonzero(adj) ==
  LET s == Stored(adj)
  IN <<[n \in DOMAIN s |-> s[n][1]], [n \in DOMAIN s |-> s[n][2]]>>

\* adj.data, in storage order.
Data(adj) ==
  LET s == Stored(adj) IN [n \in DOMAIN s |-> adj.val[s[n][1]][s[n][2]]]

\* density = adj.nnz / adj.shape[0] / adj.shape[0], as the fraction <<num, den>>.
Density(adj) == <<Nnz(adj), Shape(adj)[1] * Shape(adj)[1]>>

\* x > y for fractions with positive denominators.
Greater(x, y) == x[1] * y[2] > y[1] * x[2]

\* A faulty variant of Argsort: the indices in descending order of data.
ArgsortDescending(data, reversed) ==
  SortSeq([n \in DOMAIN data |-> n],
          LAMBDA x, y : \/ data[x] > data[y]
                        \/ data[x] = data[y] /\ (IF reversed THEN x > y ELSE x < y))

\* np.argsort(data): indices in ascending order of data.  The order among
\* equal values is not specified; reversed picks between the two index orders.
Argsort(data, reversed) ==
  SortSeq([n \in DOMAIN data |-> n],
          LAMBDA x, y : \/ data[x] < data[y]
                        \/ data[x] = data[y] /\ (IF reversed THEN x > y ELSE x < y))

RECURSIVE TakeFromEnd(_, _, _)
TakeFromEnd(indices, mult, budget) ==
  IF indices = <<>> \/ budget = 0 THEN <<>>
  ELSE LET last == indices[Len(indices)]
           n == Min(mult[last], budget)
       IN Append(TakeFromEnd(SubSeq(indices, 1, Len(indices) - 1), mult, budget - n),
                 [index |-> last, n |-> n])

WholeSeq(indices, mult) == [i \in DOMAIN indices |-> [index |-> indices[i], n |-> mult[indices[i]]]]

\* sorted[-K:]: the last K entries, and the whole array when K = 0 (-0 is 0).
LastK(indices, mult, K) ==
  IF K = 0 THEN WholeSeq(indices, mult) ELSE TakeFromEnd(indices, mult, K)

\* The (row, column) pairs handed to dgl.graph, with how many pairs of each
\* block: all stored pairs for one edge type, the top K for a longer metapath.
ModifiedNodePairs(adj, metapath, reversed) ==
  LET node_pairs == Nonzero(adj)
      all == [n \in DOMAIN node_pairs[1] |-> n]
      topk_indices ==
        IF Len(metapath) > 1
        THEN LastK(Argsort(Data(adj), reversed), Mult(adj),
                   (Shape(adj)[1] + Shape(adj)[2]) * TopKPerNode)
        ELSE WholeSeq(all, Mult(adj))
  IN { [row |-> node_pairs[1][t.index], col |-> node_pairs[2][t.index], n |-> t.n] :
         t \in { topk_indices[i] : i \in DOMAIN topk_indices } }

\* The density (a float) when it exceeds the threshold, the new graph otherwise.
metapath_reachable_graph(g, metapath, threshold, reversed) ==
  LET adj == ComposedAdj(g, metapath)
      density == Density(adj)
  IN IF Greater(density, threshold)
     THEN [float |-> TRUE, density |-> density]
     ELSE [float |-> FALSE,
           num_nodes |-> Shape(adj)[1] + Shape(adj)[2],
           edges |-> ModifiedNodePairs(adj, metapath, reversed)]

\* self.metapath_reachable_graph(g, meta_path), for every call forward can make.
Reachable ==
  [g \in GraphIds, meta_path \in MetaPaths, t \in Thresholds, reversed \in BOOLEAN |->
     metapath_reachable_graph(g, meta_path, t, reversed)]

\* ------------------------------------------------------------------- state
VARIABLES
  threshold,        \* HANLayer.threshold, a fraction <<num, den>>
  out_size,         \* HANLayer.out_size
  layer_num_heads,  \* HANLayer.layer_num_heads
  sg_dict,          \* key -> cached subgraph
  large_graph,      \* key -> density of a metapath found dense
  gat_layers,       \* key -> attention sublayer [id, w]
  rest_layers,      \* key -> snapshot of the sublayer [id, w]
  useless_flag,     \* HANLayer.useless_flag
  param_groups,     \* the optimizer's param groups: the module whose parameters each holds
  meta_pathset,     \* the caller's list of metapaths, which forward mutates
  op,               \* the operation that has just run, "idle" once its caller has moved on
  g_arg,            \* the graph of the last forward call
  b_ids_arg,        \* the b_ids of the last forward call
  examined,         \* the metapaths the last forward's first loop visited, in order
  invoked,          \* the metapaths the last forward called metapath_reachable_graph for
  used,             \* what the last forward's second loop read for each metapath
  ret,              \* what the last operation returned or raised
  origin,           \* key -> the graph and metapath metapath_reachable_graph was called with
  restored          \* the keys of the sublayers whose values the last reset changed

config == <<threshold, out_size, layer_num_heads>>
layer == <<sg_dict, large_graph, gat_layers, rest_layers, useless_flag>>
observed == <<op, g_arg, b_ids_arg, examined, invoked, used, ret, origin, restored>>
vars == <<config, layer, param_groups, meta_pathset, observed>>

\* h.shape[0]: one row of features per node of the target type.
FeatureRows == SumSeq(NodeGroups["U"])

\* ----------------------------------------------------- HANLayer.forward
\* A faulty variant of NotCached: large_graph is not consulted.
NotInSgDict(st, key) == key \notin DOMAIN st.sg_dict

\* The condition under which the first loop builds a metapath's graph.
NotCached(st, key) ==
  key \notin DOMAIN st.sg_dict /\ key \notin DOMAIN st.large_graph

\* list.remove(x): the first occurrence goes; ValueError when there is none.
Remove(st, field, x) ==
  IF Contains(st[field], x)
  THEN [st EXCEPT ![field] = ListRemove(@, x)]
  ELSE [st EXCEPT !.error = "ValueError"]

\* Two removals in a row; the second is not reached when the first raises.
RemoveBoth(st, first, second, x) ==
  LET s1 == Remove(st, first, x)
  IN IF s1.error # "" THEN s1 ELSE Remove(s1, second, x)

\* A dense metapath: its density is recorded and it leaves both lists.
RecordDense(st, key, meta_path, density) ==
  LET s1 == [st EXCEPT !.large_graph = DictSet(@, key, density)]
      s2 == RemoveBoth(s1, "meta_paths", "meta_pathset", meta_path)
  IN IF s2.error # "" THEN s2 ELSE [s2 EXCEPT !.useless_flag = TRUE]

\* The GATConv made for a key: a new module (the nth made for that key), with
\* the initialiser's values.
NewGATConv(st, key) ==
  [kind |-> "GATConv", key |-> key,
   nth |-> IF key \in DOMAIN st.gat_layers THEN st.gat_layers[key].nth + 1 ELSE 1,
   w |-> 0]

\* A faulty variant of DeepCopy: the snapshot is the sublayer itself.
SameModule(module) == module

\* copy.deepcopy(gatconv): another module with the same values.
DeepCopy(module) == [module EXCEPT !.kind = "deepcopy"]

ModuleId(module) == [kind |-> module.kind, key |-> module.key, nth |-> module.nth]

\* A faulty variant of AddParamGroup: the group holds the parameters of a copy.
AddParamGroupOfCopy(groups, module) ==
  Append(groups, [ModuleId(module) EXCEPT !.kind = "deepcopy"])

\* optimizer.add_param_group({'params': gatconv.parameters()})
AddParamGroup(groups, module) == Append(groups, ModuleId(module))

\* ModuleDict.update with a one-entry ModuleDict
ModuleDictUpdate(dict, key, module) == DictSet(dict, key, module)

\* A faulty variant of Admit: no snapshot of the new sublayer is kept.
AdmitWithoutSnapshot(st, key, graph) ==
  LET gatconv == NewGATConv(st, key)
  IN [st EXCEPT !.sg_dict = DictSet(@, key, graph),
                !.gat_layers = ModuleDictUpdate(@, key, gatconv),
                !.param_groups = AddParamGroup(@, gatconv)]

\* A sparse enough metapath: its graph is cached, and its sublayer is made,
\* registered, snapshotted and handed to the optimizer.
Admit(st, key, graph) ==
  LET gatconv == NewGATConv(st, key)
  IN [st EXCEPT !.sg_dict = DictSet(@, key, graph),
                !.gat_layers = ModuleDictUpdate(@, key, gatconv),
                !.rest_layers = ModuleDictUpdate(@, key, DeepCopy(gatconv)),
                !.param_groups = AddParamGroup(@, gatconv)]

\* One iteration of the first loop.
Visit(st, g, meta_path, reversed) ==
  LET key == Join(meta_path)
      seen == [st EXCEPT !.examined = Append(@, meta_path)]
  IN IF NotCached(seen, key)
     THEN LET graph == Reachable[g, meta_path, seen.threshold, reversed]
              called == [seen EXCEPT !.invoked = Append(@, meta_path),
                                     !.origin = DictSet(@, key, [g |-> g, metapath |-> meta_path])]
          IN IF graph.float
             THEN RecordDense(called, key, meta_path, graph.density)
             ELSE Admit(called, key, graph)
     ELSE IF key \in DOMAIN seen.large_graph
     THEN RemoveBoth([seen EXCEPT !.useless_flag = TRUE],
                     "meta_pathset", "meta_paths", meta_path)
     ELSE seen

\* for meta_path in meta_paths[:]: the loop runs over a copy taken at its start.
RECURSIVE FirstLoop(_, _, _, _)
FirstLoop(st, g, copy, reversed) ==
  IF copy = <<>> \/ st.error # "" THEN st
  ELSE FirstLoop(Visit(st, g, Head(copy), reversed), g, Tail(copy), reversed)

\* A tensor of the given shape may be assigned to a slice of the other shape
\* when each of its dimensions is that of the slice or 1.
Broadcastable(from, to) ==
  /\ Len(from) = Len(to)
  /\ \A i \in DOMAIN from : from[i] = to[i] \/ from[i] = 1

\* The embedding one metapath contributes: its shape, or <<>> when the
\* assignment c[output_nodes] = emb raises.
Embedding(st, b_ids) ==
  LET output_nodes == Cardinality({ b_ids[i] : i \in DOMAIN b_ids })
      emb == <<output_nodes, st.out_size * st.layer_num_heads>>
  IN IF emb[1] # Len(b_ids)
     THEN IF Broadcastable(emb, <<output_nodes, st.out_size>>)
          THEN <<Len(b_ids), st.out_size>>
          ELSE <<>>
     ELSE emb

\* The second loop: one embedding per remaining metapath, from its cached
\* graph and its sublayer.
RECURSIVE SecondLoop(_, _, _)
SecondLoop(st, meta_paths, b_ids) ==
  IF meta_paths = <<>> \/ st.error # "" THEN st
  ELSE LET key == Join(Head(meta_paths))
           emb == Embedding(st, b_ids)
           read == [st EXCEPT !.used = Append(@, [meta_path |-> Head(meta_paths),
                                                  graph |-> st.sg_dict[key],
                                                  module |-> ModuleId(st.gat_layers[key])])]
       IN IF emb = <<>>
          THEN [read EXCEPT !.error = "RuntimeError"]
          ELSE SecondLoop([read EXCEPT !.semantic_embeddings = Append(@, emb)],
                          Tail(meta_paths), b_ids)

\* torch.stack(..., dim=1) of equal shapes (N, D) is (N, M, D);
\* SemanticAttention.forward maps it to (N, D) when D is its in_size.
Output(st) ==
  LET embs == IF st.semantic_embeddings = <<>>
              THEN << <<FeatureRows, st.out_size * st.layer_num_heads>> >>
              ELSE st.semantic_embeddings
  IN IF /\ \A i \in DOMAIN embs : embs[i] = embs[1]
        /\ embs[1][2] = st.out_size * st.layer_num_heads
     THEN [kind |-> "tensor", shape |-> embs[1]]
     ELSE [kind |-> "RuntimeError"]

ForwardStart ==
  [threshold |-> threshold, out_size |-> out_size, layer_num_heads |-> layer_num_heads,
   sg_dict |-> sg_dict, large_graph |-> large_graph,
   gat_layers |-> gat_layers, rest_layers |-> rest_layers,
   param_groups |-> param_groups, useless_flag |-> FALSE,
   meta_paths |-> meta_pathset, meta_pathset |-> meta_pathset,
   examined |-> <<>>, invoked |-> <<>>, used |-> <<>>, origin |-> origin,
   semantic_embeddings |-> <<>>, error |-> ""]

ForwardResult(g, b_ids, reversed) ==
  LET s1 == FirstLoop(ForwardStart, g, meta_pathset, reversed)
  IN SecondLoop(s1, s1.meta_paths, b_ids)

\* What forward returns or raises.
Returned(st) == IF st.error # "" THEN [kind |-> st.error] ELSE Output(st)

NoReturn == [kind |-> "None"]

Forward(g, b_ids, reversed) ==
  /\ op = "idle"
  /\ \E st \in { ForwardResult(g, b_ids, reversed) } :
       /\ sg_dict' = st.sg_dict
       /\ large_graph' = st.large_graph
       /\ gat_layers' = st.gat_layers
       /\ rest_layers' = st.rest_layers
       /\ useless_flag' = st.useless_flag
       /\ param_groups' = st.param_groups
       /\ meta_pathset' = st.meta_pathset
       /\ op' = "forward"
       /\ g_arg' = g
       /\ b_ids_arg' = b_ids
       /\ examined' = st.examined
       /\ invoked' = st.invoked
       /\ used' = st.used
       /\ ret' = Returned(st)
       /\ origin' = st.origin
       /\ restored' = {}
  /\ UNCHANGED config

\* The caller moves on: nothing of the call is left to observe but what it
\* did to the layer, the optimizer and the caller's list.
Return ==
  /\ op # "idle"
  /\ op' = "idle"
  /\ g_arg' = 0
  /\ b_ids_arg' = <<>>
  /\ examined' = <<>>
  /\ invoked' = <<>>
  /\ used' = <<>>
  /\ ret' = NoReturn
  /\ restored' = {}
  /\ UNCHANGED <<config, layer, param_groups, meta_pathset, origin>>

\* The caller hands forward a list of its own making.
SetMetaPaths(mps) ==
  /\ op = "idle"
  /\ meta_pathset' = mps
  /\ UNCHANGED <<config, layer, param_groups, observed>>

\* ------------------------------------------------------- HANLayer.reset
\* Module.load_state_dict(state_dict), strict: the values of the entries both
\* have are copied into the existing parameters.
load_state_dict(modules, state_dict) ==
  [k \in DOMAIN modules |->
     IF k \in DOMAIN state_dict THEN [modules[k] EXCEPT !.w = state_dict[k].w]
     ELSE modules[k]]

\* ... and RuntimeError is raised when the two sets of keys differ.
LoadError(modules, state_dict) ==
  IF DOMAIN modules = DOMAIN state_dict THEN NoReturn ELSE [kind |-> "RuntimeError"]

Reset ==
  /\ op = "idle"
  /\ gat_layers' = load_state_dict(gat_layers, rest_layers)
  /\ op' = "reset"
  /\ ret' = LoadError(gat_layers, rest_layers)
  /\ restored' = { k \in DOMAIN gat_layers : gat_layers'[k] # gat_layers[k] }
  /\ UNCHANGED <<g_arg, b_ids_arg, examined, invoked, used, origin>>
  /\ UNCHANGED <<config, sg_dict, large_graph, rest_layers, useless_flag,
                 param_groups, meta_pathset>>

\* ------------------------------------------------------ optimizer.step
\* The optimizer writes to the parameters its param groups hold, wherever
\* the module that owns them is registered.
Stepped(modules, id, w) ==
  [k \in DOMAIN modules |->
     IF ModuleId(modules[k]) = id THEN [modules[k] EXCEPT !.w = w] ELSE modules[k]]

OptimizerStep(i, w) ==
  /\ op = "idle"
  /\ gat_layers' = Stepped(gat_layers, param_groups[i], w)
  /\ rest_layers' = Stepped(rest_layers, param_groups[i], w)
  /\ UNCHANGED observed
  /\ UNCHANGED <<config, sg_dict, large_graph, useless_flag, param_groups, meta_pathset>>

\* ----------------------------------------------------------- specification
Init ==
  /\ threshold \in Thresholds
  /\ out_size \in OutSizes
  /\ layer_num_heads \in HeadCounts
  /\ sg_dict = EmptyDict
  /\ large_graph = EmptyDict
  /\ gat_layers = EmptyDict
  /\ rest_layers = EmptyDict
  /\ useless_flag = FALSE
  /\ param_groups = <<>>
  /\ meta_pathset = <<>>
  /\ op = "idle"
  /\ g_arg = 0
  /\ b_ids_arg = <<>>
  /\ examined = <<>>
  /\ invoked = <<>>
  /\ used = <<>>
  /\ ret = NoReturn
  /\ origin = EmptyDict
  /\ restored = {}

Next ==
  \/ \E mps \in MetaPathSets : SetMetaPaths(mps)
  \/ \E g \in GraphIds, b_ids \in BatchIds, reversed \in BOOLEAN : Forward(g, b_ids, reversed)
  \/ Reset
  \/ \E i \in DOMAIN param_groups, w \in 0 .. MaxParam : OptimizerStep(i, w)
  \/ Return

Spec == Init /\ [][Next]_vars

\* ------------------------------------------------------------------ claims
Keys(dict) == DOMAIN dict

IsForward == op = "forward"

\* C1: metapath_reachable_graph is called for a metapath only when its key is
\* in neither sg_dict nor large_graph, so at most once per key; a cached
\* subgraph is never replaced, and the second loop reads the cached entry,
\* whatever graph g the call was given.
C1_BuildOnlyOnMiss ==
  [][ op' = "forward" =>
        /\ \A i \in DOMAIN invoked' :
             /\ Join(invoked'[i]) \notin Keys(sg_dict)
             /\ Join(invoked'[i]) \notin Keys(large_graph)
             /\ \A j \in DOMAIN invoked' : Join(invoked'[j]) = Join(invoked'[i]) => j = i
        /\ \A k \in Keys(sg_dict) : k \in Keys(sg_dict') /\ sg_dict'[k] = sg_dict[k]
        /\ \A i \in DOMAIN used' :
             LET k == Join(used'[i].meta_path)
             IN /\ k \in Keys(sg_dict')
                /\ used'[i].graph = sg_dict'[k]
                /\ k \in Keys(sg_dict) => used'[i].graph = sg_dict[k] ]_vars

\* A forward call that built nothing and read a subgraph that was cached
\* from another graph than the one it was given.
C1_Witness ==
  /\ IsForward
  /\ invoked = <<>>
  /\ \E i \in DOMAIN used : origin[Join(used[i].meta_path)].g # g_arg

PairDensity(adj) == <<Nnz(adj), Shape(adj)[1] * Shape(adj)[2]>>

\* C3: a metapath is recorded as dense exactly when the share of connected
\* (source, destination) pairs in its composed adjacency exceeds the
\* threshold, and the density recorded lies in [0, 1].
C3_PrunedIffPairDensityAboveThreshold ==
  \A k \in Keys(origin) :
    LET adj == ComposedAdj(origin[k].g, origin[k].metapath)
    IN /\ k \in Keys(large_graph) <=> Greater(PairDensity(adj), threshold)
       /\ k \in Keys(large_graph) => large_graph[k][1] <= large_graph[k][2]

RECURSIVE Pairs(_)
Pairs(edges) ==
  IF edges = {} THEN 0
  ELSE LET e == CHOOSE x \in edges : TRUE IN e.n + Pairs(edges \ {e})

\* How many pairs of block (i, j) the edge set holds.
Kept(edges, i, j) == Pairs({ e \in edges : e.row = i /\ e.col = j })

\* C4: the pairs a cached subgraph was built from are pairs with a nonzero
\* path count; for a metapath of length 1 all of them, for a longer one the
\* min(nnz, K) of them with the largest counts, K = 5000 * (rows + columns).
C4_TopKPairs ==
  \A k \in Keys(sg_dict) :
    LET adj == ComposedAdj(origin[k].g, origin[k].metapath)
        edges == sg_dict[k].edges
        K == TopKPerNode * (Shape(adj)[1] + Shape(adj)[2])
        size(i, j) == IF adj.val[i][j] = 0 THEN 0 ELSE adj.rows[i] * adj.cols[j]
        blocks == (DOMAIN adj.rows) \X (DOMAIN adj.cols)
    IN /\ \A e \in edges : <<e.row, e.col>> \in blocks /\ e.n >= 1
       /\ \A b \in blocks : Kept(edges, b[1], b[2]) <= size(b[1], b[2])
       /\ Len(origin[k].metapath) = 1 =>
            \A b \in blocks : Kept(edges, b[1], b[2]) = size(b[1], b[2])
       /\ Len(origin[k].metapath) > 1 =>
            /\ Pairs(edges) = Min(Nnz(adj), K)
            /\ \A b, d \in blocks :
                 /\ Kept(edges, b[1], b[2]) > 0
                 /\ Kept(edges, d[1], d[2]) < size(d[1], d[2])
                 => adj.val[d[1]][d[2]] <= adj.val[b[1]][b[2]]

\* A cached subgraph of a two-edge metapath that lost pairs to the top-k cut.
C4_Witness ==
  \E k \in Keys(sg_dict) :
    /\ Len(origin[k].metapath) > 1
    /\ Pairs(sg_dict[k].edges) < Nnz(ComposedAdj(origin[k].g, origin[k].metapath))

\* A metapath that metapath_reachable_graph finds dense in no graph.
NeverDense(meta_path) ==
  \A g \in GraphIds : ~Reachable[g, meta_path, threshold, FALSE].float

\* C5: when forward returns, the caller's list holds no metapath whose key is
\* in large_graph and still holds, in their order, the metapaths that are not
\* dense; the first loop visited every supplied metapath once, and built no
\* graph for a key already in large_graph.
C5_DenseRemovedOthersKept ==
  [][ op' = "forward" /\ ret'.kind = "tensor" =>
        /\ \A i \in DOMAIN meta_pathset' : Join(meta_pathset'[i]) \notin Keys(large_graph')
        /\ SelectSeq(meta_pathset', NeverDense) = SelectSeq(meta_pathset, NeverDense)
        /\ examined' = meta_pathset
        /\ \A i \in DOMAIN invoked' : Join(invoked'[i]) \notin Keys(large_graph) ]_vars

\* C6: forward returns a tensor of shape (len(b_ids), out_size * layer_num_heads).
C6_OutputShape ==
  IsForward =>
    ret = [kind |-> "tensor", shape |-> <<Len(b_ids_arg), out_size * layer_num_heads>>]

C8_ResetRestoresSnapshot ==
  /\ [](op = "reset" =>
          /\ ret = NoReturn
          /\ load_state_dict(gat_layers, rest_layers) = gat_layers)
  /\ [][/\ \A k \in Keys(rest_layers) :
             k \in Keys(rest_layers') /\ rest_layers'[k] = rest_layers[k]
        /\ \A k \in Keys(rest_layers') \ Keys(rest_layers) :
             k \in Keys(gat_layers') /\ rest_layers'[k].w = gat_layers'[k].w
        /\ op' = "reset" =>
             /\ Keys(gat_layers') = Keys(gat_layers)
             /\ \A k \in Keys(gat_layers) :
                  /\ k \in Keys(rest_layers)
                  /\ gat_layers'[k].w = rest_layers[k].w
                  /\ ModuleId(gat_layers'[k]) = ModuleId(gat_layers[k])
             /\ UNCHANGED <<sg_dict, large_graph, rest_layers, param_groups>>]_vars

\* A reset that changed the values of a sublayer the optimizer had stepped.
C8_Witness ==
  /\ op = "reset"
  /\ restored # {}
  /\ \A k \in restored : gat_layers[k].w = rest_layers[k].w

\* C9: every metapath the first loop visits is served by the cache entry, or
\* the verdict, that was made for that same sequence of edge types.
C9_NoSharedEntry ==
  IsForward =>
    \A i \in DOMAIN examined : origin[Join(examined[i])].metapath = examined[i]

==========================================================================
